---- MODULE Spec2Model ----
(***************************************************************************)
(* Model of object_detection_gui.py: the YOLOv7GUI window (one Tk event    *)
(* loop), the worker threads started by start_detection_thread, the queue  *)
(* of callbacks the workers post with root.after, and the filesystem the   *)
(* worker probes for the annotated image.                                  *)
(*                                                                         *)
(* Python's None, "" and () are all written <<>>: paths are tuples of path *)
(* components, images are <<width, height>> tuples, so that every optional *)
(* value is a sequence.                                                    *)
(***************************************************************************)
EXTENDS Integers, Sequences, FiniteSets, TLC

None == <<>>

\* ---------------------------------------------------------------- bounds
MaxLines == 6       \* most lines the child process writes to standard error
MaxMtime == 2       \* modification times of run directories are 1..MaxMtime
MaxWorkers == 2     \* cap on worker threads alive at once
MaxImgSide == 16    \* rendering alone: image widths and heights are 1..MaxImgSide

\* ------------------------------------------------------- program constants
TinySize == 20      \* update_label_image: "if width < 20 or height < 20"
Padding == 10       \* update_label_image: thumbnail((width - 10, height - 10))
TailLines == 5      \* detect_objects: result.stderr.splitlines()[-5:]

\* -------------------------------------------------------------- the world
\* Files the file picker can return (path components), and the pixel size of
\* the image a file of each base name decodes to.
SourceFiles == {<<"pics", "x.jpg">>, <<"pics", "y.jpg">>}

ImgSize(name) == IF name = "x.jpg" THEN <<40, 20>> ELSE <<15, 30>>

\* Sizes a panel's content frame can take; <<1, 1>> is what winfo_width and
\* winfo_height answer before the window is mapped.
PanelSizes == {<<1, 1>>, <<30, 30>>, <<50, 25>>}

ExitCodes == {0, 1, 2}

\* Standard error of the child process, as the list splitlines() gives:
\* line i is the token i.  The text is empty exactly when the list is.
StderrTexts == {[i \in 1..n |-> i] : n \in 0..MaxLines}

RunNames == {"GUI_exp", "exp", "exp2"}

\* What the worker finds under runs/detect: whether the directory can be
\* listed, and for each subdirectory its modification time and whether it
\* holds a file with the source's base name.
FileSystems ==
    {[listable |-> TRUE, dirs |-> f] :
        f \in UNION {[D -> [mtime : 1..MaxMtime, has : BOOLEAN]] :
                        D \in SUBSET RunNames}}
    \cup {[listable |-> FALSE, dirs |-> <<>>]}

\* ------------------------------------------------------------ os.path
Join(a, b) == a \o b

Basename(p) == p[Len(p)]

\* self.yolov7_dir, and detect_objects' project_dir and experiment_name
yolov7_dir == <<"yolov7">>

project_dir == Join(yolov7_dir, <<"runs", "detect">>)

experiment_name == "GUI_exp"

\* os.path.exists of a path project_dir/<d>/<image_name>
Exists(fs, p) ==
    /\ fs.listable
    /\ Len(p) = Len(project_dir) + 2
    /\ SubSeq(p, 1, Len(project_dir)) = project_dir
    /\ p[Len(project_dir) + 1] \in DOMAIN fs.dirs
    /\ fs.dirs[p[Len(project_dir) + 1]].has

----------------------------------------------------------------------------
VARIABLES
    gui,          \* the YOLOv7GUI object: fields and widget options
    winfo,        \* size of each panel's content frame
    after_queue,  \* callbacks posted with root.after(0, ...), oldest first
    workers       \* the worker threads alive, in order of start

vars == <<gui, winfo, after_queue, workers>>

\* A panel's label widget: the PIL image kept on it (<<filename, size>>), the
\* PhotoImage reference kept on it (its size), and its -image option.
EmptyLabel == [original_image |-> None, image |-> None, config_image |-> None]

\* info_label texts
InfoIdle == "Select an image to begin detection."
InfoSelected == "Selected"
InfoDetecting == "Detecting objects, please wait..."
InfoComplete == "Detection complete"
InfoFailed == "Detection failed or output not found."


\* messagebox texts: what the last message box shown said
MsgNone == ""
MsgImageNotFound == "Image file not found"
MsgCouldNotLoad == "Could not load image"
MsgNoValidImage == "No valid image selected or file not found."
MsgSetupWarning == "Setup Warning"
MsgWeightsMissing == "Default weights file not found"
MsgDetectionFailed == "Object detection failed"
MsgOutputNotFound == "Output image could not be found."
MsgExecutionError == "Execution Error"

\* ------------------------------------------------- PIL Image.thumbnail
Abs(n) == IF n < 0 THEN -n ELSE n

AtLeastOne(n) == IF n < 1 THEN 1 ELSE n

Ceil(a, b) == IF a % b = 0 THEN a \div b ELSE (a \div b) + 1

\* round_aspect(y * aspect, key = |aspect - n / y|) for an image W x H: the
\* candidate (floor first) whose ratio to y is nearest W / H, at least 1.
RoundAspectX(W, H, y) ==
    LET f == (y * W) \div H
        c == Ceil(y * W, H)
    IN AtLeastOne(IF Abs(W * y - f * H) <= Abs(W * y - c * H) THEN f ELSE c)

\* round_aspect(x / aspect, key = 0 if n == 0 else |aspect - x / n|)
RoundAspectY(W, H, x) ==
    LET f == (x * H) \div W
        c == Ceil(x * H, W)
    IN AtLeastOne(IF f = 0 \/ Abs(W * f - x * H) * c <= Abs(W * c - x * H) * f
                  THEN f ELSE c)

\* Thumbnail stretching the image to the whole area, as resize would.
Thumbnail_stretch(size, avail) == avail

\* The size img_copy has after img_copy.thumbnail(avail): unchanged when it
\* already fits, else the largest size of the same aspect ratio that fits.
Thumbnail(size, avail) ==
    LET W == size[1]
        H == size[2]
        x == avail[1]
        y == avail[2]
    IN IF x >= W /\ y >= H THEN size
       ELSE IF x * H >= W * y THEN <<RoundAspectX(W, H, y), y>>
       ELSE <<x, RoundAspectY(W, H, x)>>

\* ------------------------------------------------------ YOLOv7GUI methods
\* The pixel size of the PIL image opened from a path.
OpenedSize(path) == ImgSize(Basename(path))

\* The PIL image PILImage.open(path) gives: its filename and its size.
PILImage_open(path) == <<path, OpenedSize(path)>>

\* update_label_image skipping only when both sides are tiny.
update_label_image_and(label, size) ==
    IF label.original_image = None THEN label
    ELSE IF size[1] < TinySize /\ size[2] < TinySize THEN label
    ELSE LET photo == Thumbnail(label.original_image[2],
                                <<size[1] - Padding, size[2] - Padding>>)
         IN [label EXCEPT !.config_image = photo, !.image = photo]

\* update_label_image fitting the image to the whole frame, without padding.
update_label_image_no_padding(label, size) ==
    IF label.original_image = None THEN label
    ELSE IF size[1] < TinySize \/ size[2] < TinySize THEN label
    ELSE LET photo == Thumbnail(label.original_image[2], size)
         IN [label EXCEPT !.config_image = photo, !.image = photo]

\* update_label_image on a label whose content frame has the given size.
\* ImageTk.PhotoImage is taken to succeed on an image PIL has opened.
update_label_image(label, size) ==
    IF label.original_image = None THEN label
    ELSE IF size[1] < TinySize \/ size[2] < TinySize THEN label
    ELSE LET photo == Thumbnail(label.original_image[2],
                                <<size[1] - Padding, size[2] - Padding>>)
         IN [label EXCEPT !.config_image = photo, !.image = photo]

\* reset_ui clearing the input whatever clear_input says.
reset_ui_always_clears(g, clear_input) ==
    [g EXCEPT !.input_image_path = None,
              !.info_label = InfoIdle,
              !.input_image_label = EmptyLabel,
              !.detect_button = FALSE,
              !.result_image_label = EmptyLabel,
              !.browse_button = TRUE,
              !.reset_button = TRUE]

\* reset_ui leaving the detect button as it is.
reset_ui_detect_left(g, clear_input) ==
    LET a == IF clear_input
             THEN [g EXCEPT !.input_image_path = None,
                            !.info_label = InfoIdle,
                            !.input_image_label = EmptyLabel]
             ELSE g
    IN [a EXCEPT !.result_image_label = EmptyLabel,
                 !.browse_button = TRUE,
                 !.reset_button = TRUE]

\* reset_ui(clear_input)
reset_ui(g, clear_input) ==
    LET a == IF clear_input
             THEN [g EXCEPT !.input_image_path = None,
                            !.info_label = InfoIdle,
                            !.input_image_label = EmptyLabel,
                            !.detect_button = FALSE]
             ELSE g
        b == [a EXCEPT !.result_image_label = EmptyLabel,
                       !.browse_button = TRUE,
                       !.reset_button = TRUE]
    IN IF ~clear_input /\ b.input_image_path # None
       THEN [b EXCEPT !.detect_button = TRUE]
       ELSE b

\* How PILImage.open can end.
OpenResults == {"ok", "FileNotFoundError", "Exception"}

\* display_flexible_image(image_path, label_widget); which names the label,
\* size is its content frame's size, opened is how PILImage.open ends.
display_flexible_image(g, which, image_path, size, opened) ==
    LET cleared == [g EXCEPT ![which].image = None,
                             ![which].original_image = None]
    IN IF opened = "ok"
       THEN [cleared EXCEPT ![which] =
                update_label_image(
                    [cleared[which] EXCEPT
                        !.original_image = PILImage_open(image_path)],
                    size)]
       ELSE reset_ui(
                [cleared EXCEPT !.messagebox =
                    IF opened = "FileNotFoundError" THEN MsgImageNotFound
                    ELSE MsgCouldNotLoad],
                TRUE)

\* browse_image without the reset_ui(clear_input=False) call.
browse_cleared_nothing(g) == g

\* browse_image, lines 293-295: the window handed to the load of the new file.
browse_cleared(g) == reset_ui(g, FALSE)

\* browse_image when the file picker returns file_path (not cancelled).
browse_selected(g, file_path, size, opened) ==
    LET a == browse_cleared(g)
        b == [a EXCEPT !.input_image_path = file_path,
                       !.info_label = InfoSelected]
        c == display_flexible_image(b, "input_image_label", file_path, size,
                                    opened)
    IN [c EXCEPT !.detect_button = TRUE, !.result_image_label = EmptyLabel]

\* browse_image(): file_path is what the file picker returns, None when it is
\* cancelled.
browse_image(g, file_path, size, opened) ==
    IF file_path # None THEN browse_selected(g, file_path, size, opened) ELSE g

\* check_yolov7_setup returning False for missing weights too.
check_yolov7_setup_weights_abort(dirOk, scriptOk, weightsOk) ==
    IF ~dirOk \/ ~scriptOk
    THEN [ok |-> FALSE, warned |-> TRUE, message |-> MsgSetupWarning]
    ELSE [ok |-> weightsOk, warned |-> ~weightsOk,
          message |-> IF weightsOk THEN MsgNone ELSE MsgWeightsMissing]

\* check_yolov7_setup: whether it returns True, whether it warns, and the
\* warning shown.
check_yolov7_setup(dirOk, scriptOk, weightsOk) ==
    IF ~dirOk THEN [ok |-> FALSE, warned |-> TRUE, message |-> MsgSetupWarning]
    ELSE IF ~scriptOk
    THEN [ok |-> FALSE, warned |-> TRUE, message |-> MsgSetupWarning]
    ELSE [ok |-> TRUE, warned |-> ~weightsOk,
          message |-> IF weightsOk THEN MsgNone ELSE MsgWeightsMissing]

\* begin_detection with the detect button left as it is.
begin_detection_detect_enabled(g) ==
    [g EXCEPT !.browse_button = FALSE,
              !.reset_button = FALSE,
              !.info_label = InfoDetecting,
              !.result_image_label = EmptyLabel]

\* begin_detection without clearing the result panel.
begin_detection_keep_result(g) ==
    [g EXCEPT !.detect_button = FALSE,
              !.browse_button = FALSE,
              !.reset_button = FALSE,
              !.info_label = InfoDetecting]

\* begin_detection with the reset button left as it is.
begin_detection_reset_enabled(g) ==
    [g EXCEPT !.detect_button = FALSE,
              !.browse_button = FALSE,
              !.info_label = InfoDetecting,
              !.result_image_label = EmptyLabel]

\* start_detection_thread leaving the browse button enabled.
begin_detection_browse_enabled(g) ==
    [g EXCEPT !.detect_button = FALSE,
              !.reset_button = FALSE,
              !.info_label = InfoDetecting,
              !.result_image_label = EmptyLabel]

\* start_detection_thread, lines 372-382: what it does to the window before
\* it starts the thread.
begin_detection(g) ==
    [g EXCEPT !.detect_button = FALSE,
              !.browse_button = FALSE,
              !.reset_button = FALSE,
              !.info_label = InfoDetecting,
              !.result_image_label = EmptyLabel]

\* start_detection_thread calling check_yolov7_setup and ignoring its answer.
start_detection_thread_ignores_setup(g, srcExists, dirOk, scriptOk, weightsOk) ==
    IF g.input_image_path = None \/ ~srcExists
    THEN [gui |-> [g EXCEPT !.messagebox = MsgNoValidImage], started |-> FALSE]
    ELSE LET setup == check_yolov7_setup(dirOk, scriptOk, weightsOk)
             warned == IF setup.warned
                       THEN [g EXCEPT !.messagebox = setup.message]
                       ELSE g
         IN [gui |-> begin_detection(warned), started |-> TRUE]

\* start_detection_thread(): the window it leaves and whether it starts the
\* thread.  srcExists is os.path.exists(self.input_image_path); dirOk,
\* scriptOk and weightsOk are what check_yolov7_setup finds on disk.
start_detection_thread(g, srcExists, dirOk, scriptOk, weightsOk) ==
    IF g.input_image_path = None \/ ~srcExists
    THEN [gui |-> [g EXCEPT !.messagebox = MsgNoValidImage], started |-> FALSE]
    ELSE LET setup == check_yolov7_setup(dirOk, scriptOk, weightsOk)
             warned == IF setup.warned
                       THEN [g EXCEPT !.messagebox = setup.message]
                       ELSE g
         IN IF ~setup.ok THEN [gui |-> warned, started |-> FALSE]
            ELSE [gui |-> begin_detection(warned), started |-> TRUE]

\* update_gui_post_detection re-enabling the buttons on success only.
update_gui_post_detection_success_only(g, output_path, success, size, opened) ==
    IF success /\ output_path # None
    THEN LET a == display_flexible_image(
                      [g EXCEPT !.info_label = InfoComplete],
                      "result_image_label", output_path, size, opened)
         IN [a EXCEPT !.detect_button = (a.input_image_path # None),
                      !.browse_button = TRUE,
                      !.reset_button = TRUE]
    ELSE [g EXCEPT !.info_label = InfoFailed,
                   !.result_image_label = EmptyLabel]

\* update_gui_post_detection(output_path, success)
update_gui_post_detection(g, output_path, success, size, opened) ==
    LET a == IF success /\ output_path # None
             THEN display_flexible_image(
                      [g EXCEPT !.info_label = InfoComplete],
                      "result_image_label", output_path, size, opened)
             ELSE [g EXCEPT !.info_label = InfoFailed,
                            !.result_image_label = EmptyLabel]
    IN [a EXCEPT !.detect_button = (a.input_image_path # None),
                 !.browse_button = TRUE,
                 !.reset_button = TRUE]


\* ------------------------------------------------------ the worker thread
\* A callback posted with self.root.after(0, fn, *args).  fn is
\* "showerror" (messagebox.showerror) or "update_gui_post_detection"; the
\* fields a callback does not use keep their defaults; title is the text the
\* message box opens with.
NoCallback ==
    [fn |-> "", title |-> "", code |-> 0, details |-> <<>>, expected |-> None,
     checked |-> None, exc |-> "", output_path |-> None, success |-> FALSE]

\* lines[:5] in place of lines[-5:]
LastLines_first(lines) ==
    SubSeq(lines, 1, IF Len(lines) < TailLines THEN Len(lines) ELSE TailLines)

\* lines[-5:]
LastLines(lines) ==
    LET n == Len(lines)
        start == IF n - TailLines < 0 THEN 0 ELSE n - TailLines
    IN SubSeq(lines, start + 1, n)

\* lines 445-453: the message box posted for a non-zero exit code
detection_error(returncode, stderr) ==
    [NoCallback EXCEPT !.fn = "showerror", !.title = MsgDetectionFailed,
                       !.code = returncode,
                       !.details = IF stderr # <<>> THEN LastLines(stderr)
                                   ELSE <<>>]

\* lines 474-475: the message box posted when no output image is found
not_found_error(output_path, pdir) ==
    [NoCallback EXCEPT !.fn = "showerror", !.title = MsgOutputNotFound,
                       !.expected = output_path, !.checked = pdir]

\* lines 481-483 and 489-491: the message box posted by an except clause
execution_error(exc) ==
    [NoCallback EXCEPT !.fn = "showerror", !.title = MsgExecutionError,
                       !.exc = exc]

\* self.root.after(0, self.update_gui_post_detection, output_path, success)
post_detection(output_path, success) ==
    [NoCallback EXCEPT !.fn = "update_gui_post_detection",
                       !.output_path = output_path, !.success = success]

\* expected_output without the experiment name
expected_output_no_run_name(image_name) == Join(project_dir, <<image_name>>)

\* line 458: the path the annotated image is expected at
expected_output(image_name) ==
    Join(project_dir, <<experiment_name, image_name>>)

\* latest_dirs with min in place of max
latest_dirs_oldest(fs) ==
    {d \in DOMAIN fs.dirs :
        \A e \in DOMAIN fs.dirs : fs.dirs[d].mtime <= fs.dirs[e].mtime}

\* The subdirectories max(sub_dirs, key = os.path.getmtime) can return:
\* os.listdir fixes no order, so any of those modified last.
latest_dirs(fs) ==
    {d \in DOMAIN fs.dirs :
        \A e \in DOMAIN fs.dirs : fs.dirs[e].mtime <= fs.dirs[d].mtime}

\* find_latest_run_output(project_dir, image_name): the values it can return.
find_latest_run_output(fs, pdir, image_name) ==
    IF ~fs.listable THEN {None}
    ELSE IF DOMAIN fs.dirs = {} THEN {None}
    ELSE {IF fs.dirs[d].has THEN Join(pdir, <<d, image_name>>) ELSE None :
             d \in latest_dirs(fs)}

NoFs == [listable |-> FALSE, dirs |-> <<>>]

\* A worker thread at the top of detect_objects.
NewWorker ==
    [pc |-> "start", image_name |-> "", returncode |-> 0, stderr |-> <<>>,
     exc |-> "", fs |-> NoFs, latest |-> None]

Remove(seq, i) == SubSeq(seq, 1, i - 1) \o SubSeq(seq, i + 1, Len(seq))

----------------------------------------------------------------------------
\* The window __init__ builds, before check_yolov7_setup.
NewGui ==
    [input_image_path |-> None,
     info_label |-> InfoIdle,
     detect_button |-> FALSE,
     browse_button |-> TRUE,
     reset_button |-> TRUE,
     input_image_label |-> EmptyLabel,
     result_image_label |-> EmptyLabel,
     messagebox |-> MsgNone]

\* __init__: the window is built and check_yolov7_setup may warn.
Init ==
    /\ \E dirOk, scriptOk, weightsOk \in BOOLEAN :
          LET setup == check_yolov7_setup(dirOk, scriptOk, weightsOk)
          IN gui = IF setup.warned
                   THEN [NewGui EXCEPT !.messagebox = setup.message]
                   ELSE NewGui
    /\ winfo = [input_image_label |-> <<1, 1>>, result_image_label |-> <<1, 1>>]
    /\ after_queue = <<>>
    /\ workers = <<>>

\* ------------------------------------------------------- the UI context
\* The user presses Browse Image and picks a file.
BrowseImage ==
    /\ gui.browse_button
    /\ \E file_path \in SourceFiles, opened \in OpenResults :
          gui' = browse_image(gui, file_path, winfo.input_image_label, opened)
    /\ UNCHANGED <<winfo, after_queue, workers>>

\* The user presses Browse Image and cancels the file picker.
BrowseCancel ==
    /\ gui.browse_button
    /\ gui' = browse_image(gui, None, winfo.input_image_label, "ok")
    /\ UNCHANGED <<winfo, after_queue, workers>>

\* The user presses Reset.
ResetPressed ==
    /\ gui.reset_button
    /\ gui' = reset_ui(gui, TRUE)
    /\ UNCHANGED <<winfo, after_queue, workers>>

\* A <Configure> event of a panel: its content frame takes a size and the
\* label's binding calls update_label_image.
Configure ==
    \E which \in {"input_image_label", "result_image_label"}, size \in PanelSizes :
        /\ winfo' = [winfo EXCEPT ![which] = size]
        /\ gui' = [gui EXCEPT ![which] = update_label_image(gui[which], size)]
        /\ UNCHANGED <<after_queue, workers>>

\* The user presses Detect Objects and a precondition fails (lines 364-370).
DetectRefused ==
    /\ gui.detect_button
    /\ \E srcExists, dirOk, scriptOk, weightsOk \in BOOLEAN :
          LET r == start_detection_thread(gui, srcExists, dirOk, scriptOk,
                                          weightsOk)
          IN /\ ~r.started
             /\ gui' = r.gui
    /\ UNCHANGED <<winfo, after_queue, workers>>

\* The user presses Detect Objects and the thread is started (lines 372-388).
StartDetectionThread ==
    /\ gui.detect_button
    /\ Len(workers) < MaxWorkers
    /\ \E srcExists, dirOk, scriptOk, weightsOk \in BOOLEAN :
          LET r == start_detection_thread(gui, srcExists, dirOk, scriptOk,
                                          weightsOk)
          IN /\ r.started
             /\ gui' = r.gui
    /\ workers' = Append(workers, NewWorker)
    /\ UNCHANGED <<winfo, after_queue>>

\* The event loop runs the oldest callback posted with root.after.
RunAfter ==
    /\ after_queue # <<>>
    /\ LET cb == Head(after_queue)
       IN IF cb.fn = "showerror"
          THEN gui' = [gui EXCEPT !.messagebox = cb.title]
          ELSE \E opened \in OpenResults :
                  gui' = update_gui_post_detection(
                             gui, cb.output_path, cb.success,
                             winfo.result_image_label, opened)
    /\ after_queue' = Tail(after_queue)
    /\ UNCHANGED <<winfo, workers>>


\* ----------------------------------------------------- the worker threads
\* PostAndReturn with the worker calling cb itself instead of posting it.
PostAndReturn_direct(i, cb) ==
    /\ gui' = IF cb.fn = "showerror"
              THEN [gui EXCEPT !.messagebox = cb.title]
              ELSE update_gui_post_detection(gui, cb.output_path, cb.success,
                                             winfo.result_image_label, "ok")
    /\ workers' = Remove(workers, i)
    /\ UNCHANGED <<winfo, after_queue>>

\* after_queue and workers once worker i has posted cb and returned.
PostAndReturn(i, cb) ==
    /\ after_queue' = Append(after_queue, cb)
    /\ workers' = Remove(workers, i)
    /\ UNCHANGED <<gui, winfo>>

\* after_queue and workers once worker i has posted cb and gone on to pc.
PostAndGo(i, cb, pc) ==
    /\ after_queue' = Append(after_queue, cb)
    /\ workers' = [workers EXCEPT ![i].pc = pc]
    /\ UNCHANGED <<gui, winfo>>

\* Lines 394-428: the worker reads self.input_image_path and builds the
\* command; os.path.basename(None) raises TypeError.
WorkerBegin(i) ==
    /\ workers[i].pc = "start"
    /\ workers' = IF gui.input_image_path = None
                  THEN [workers EXCEPT ![i].pc = "except",
                                       ![i].exc = "Exception"]
                  ELSE [workers EXCEPT ![i].pc = "run",
                                       ![i].image_name =
                                           Basename(gui.input_image_path)]
    /\ UNCHANGED <<gui, winfo, after_queue>>

\* Lines 430-436: subprocess.run returns; the child process has terminated.
ProcessExits(i) ==
    /\ workers[i].pc = "run"
    /\ \E rc \in ExitCodes, err \in StderrTexts :
          workers' = [workers EXCEPT ![i].pc = "exited",
                                     ![i].returncode = rc,
                                     ![i].stderr = err]
    /\ UNCHANGED <<gui, winfo, after_queue>>

\* Lines 430-436: subprocess.run raises (no interpreter, no working
\* directory, or any other error while launching).
ProcessRaises(i) ==
    /\ workers[i].pc = "run"
    /\ \E exc \in {"FileNotFoundError", "Exception"} :
          workers' = [workers EXCEPT ![i].pc = "except", ![i].exc = exc]
    /\ UNCHANGED <<gui, winfo, after_queue>>

\* Lines 445-454: a non-zero exit code.
WorkerProcessFailed(i) ==
    /\ workers[i].pc = "exited"
    /\ workers[i].returncode # 0
    /\ PostAndReturn(i, detection_error(workers[i].returncode,
                                        workers[i].stderr))

\* Lines 456-460: exit code 0; the worker looks at the filesystem.  The
\* lookups of one run see one state of the filesystem.
WorkerProbe(i) ==
    /\ workers[i].pc = "exited"
    /\ workers[i].returncode = 0
    /\ \E fs \in FileSystems :
          workers' = [workers EXCEPT ![i].pc = "probed", ![i].fs = fs,
                                     ![i].stderr = <<>>]
    /\ UNCHANGED <<gui, winfo, after_queue>>

\* Lines 460-462: the expected output exists.
WorkerFoundExpected(i) ==
    /\ workers[i].pc = "probed"
    /\ Exists(workers[i].fs, expected_output(workers[i].image_name))
    /\ PostAndReturn(i, post_detection(
                            expected_output(workers[i].image_name), TRUE))

\* Lines 463-468: the expected output is absent; find_latest_run_output.
WorkerScan(i) ==
    /\ workers[i].pc = "probed"
    /\ ~Exists(workers[i].fs, expected_output(workers[i].image_name))
    /\ \E latest \in find_latest_run_output(workers[i].fs, project_dir,
                                             workers[i].image_name) :
          workers' = [workers EXCEPT ![i].pc = "scanned",
                                     ![i].latest = latest]
    /\ UNCHANGED <<gui, winfo, after_queue>>

\* Lines 469-472: the latest run holds the image.
WorkerFoundLatest(i) ==
    /\ workers[i].pc = "scanned"
    /\ workers[i].latest # None
    /\ Exists(workers[i].fs, workers[i].latest)
    /\ PostAndReturn(i, post_detection(workers[i].latest, TRUE))

\* Lines 473-475: neither lookup found the image.
WorkerNotFound(i) ==
    /\ workers[i].pc = "scanned"
    /\ ~(workers[i].latest # None /\ Exists(workers[i].fs, workers[i].latest))
    /\ PostAndGo(i, not_found_error(expected_output(workers[i].image_name),
                                    project_dir),
                 "post_update")

\* WorkerExcept with an except clause that only logs and returns.
WorkerExcept_dropped(i) ==
    /\ workers[i].pc = "except"
    /\ workers' = Remove(workers, i)
    /\ UNCHANGED <<gui, winfo, after_queue>>

\* Lines 479-483 and 488-491: an except clause posts its message box.
WorkerExcept(i) ==
    /\ workers[i].pc = "except"
    /\ PostAndGo(i, execution_error(workers[i].exc), "post_update")

\* Lines 477, 484-486 and 492-494: the failure completion is posted.
WorkerPostFailure(i) ==
    /\ workers[i].pc = "post_update"
    /\ PostAndReturn(i, post_detection(None, FALSE))

WorkerStep(i) ==
    \/ WorkerBegin(i)
    \/ ProcessExits(i)
    \/ ProcessRaises(i)
    \/ WorkerProcessFailed(i)
    \/ WorkerProbe(i)
    \/ WorkerFoundExpected(i)
    \/ WorkerScan(i)
    \/ WorkerFoundLatest(i)
    \/ WorkerNotFound(i)
    \/ WorkerExcept(i)
    \/ WorkerPostFailure(i)

Worker == \E i \in 1..Len(workers) : WorkerStep(i)

UI ==
    \/ BrowseImage
    \/ BrowseCancel
    \/ ResetPressed
    \/ Configure
    \/ DetectRefused
    \/ StartDetectionThread
    \/ RunAfter

Next == UI \/ Worker

Spec == Init /\ [][Next]_vars

\* ------------------------------------------------------- rendering alone
\* update_label_image on its own: the input label holds an image of any size
\* up to MaxImgSide (or none) and its content frame takes any of these sizes.
RenderSides == {TinySize - 1, TinySize, TinySize + 3, TinySize + 8}

RenderPanelSizes == RenderSides \X RenderSides

RenderImages ==
    {<<<<"pics", "x.jpg">>, <<w, h>>>> : w, h \in 1..MaxImgSide}

RenderInit ==
    /\ \E img \in RenderImages \cup {None} :
          gui = IF img = None THEN NewGui
                ELSE [NewGui EXCEPT !.input_image_path = img[1],
                                    !.info_label = InfoSelected,
                                    !.detect_button = TRUE,
                                    !.input_image_label.original_image = img]
    /\ winfo = [input_image_label |-> <<1, 1>>, result_image_label |-> <<1, 1>>]
    /\ after_queue = <<>>
    /\ workers = <<>>

\* A <Configure> event of the input panel.
RenderConfigure ==
    \E size \in RenderPanelSizes :
        /\ winfo' = [winfo EXCEPT !.input_image_label = size]
        /\ gui' = [gui EXCEPT !.input_image_label =
                       update_label_image(gui.input_image_label, size)]
        /\ UNCHANGED <<after_queue, workers>>

RenderSpec == RenderInit /\ [][RenderConfigure]_vars


----------------------------------------------------------------------------
\* Session states of the specification, read off the window.
Detecting == gui.info_label = InfoDetecting

Failed == gui.info_label = InfoFailed

ResultEmpty == gui.result_image_label = EmptyLabel

\* Worker i takes a step: its record changes or it returns.
Stepped(i) ==
    \/ workers' = Remove(workers, i)
    \/ Len(workers') = Len(workers) /\ workers'[i] # workers[i]

\* The callback the step has appended to after_queue.
Posted == after_queue'[Len(after_queue')]

PostsOne == Len(after_queue') = Len(after_queue) + 1
                /\ SubSeq(after_queue', 1, Len(after_queue)) = after_queue

\* The event loop applies the completion at the head of after_queue.
CompletionApplied ==
    /\ after_queue # <<>>
    /\ Head(after_queue).fn = "update_gui_post_detection"
    /\ after_queue' = Tail(after_queue)

PendingCompletions ==
    {k \in DOMAIN after_queue : after_queue[k].fn = "update_gui_post_detection"}

\* C1 (as claimed): once a triggered run has terminated and the event loop has
\* run everything it posted, the browse and reset controls are enabled.
C1_ControlsReenabled ==
    (workers = <<>> /\ after_queue = <<>>)
        => (gui.browse_button /\ gui.reset_button)

\* C2: at most one detection is in flight (a worker alive, or a completion
\* posted and not yet applied), and the detect control is disabled while one is.
C2_OneInFlight ==
    /\ Len(workers) + Cardinality(PendingCompletions) <= 1
    /\ (workers # <<>> \/ PendingCompletions # {}) => ~gui.detect_button

C2_Witness ==
    /\ workers = <<>>
    /\ Cardinality(PendingCompletions) = 1
    /\ gui.input_image_label.original_image # None
    /\ ~gui.detect_button

\* C3: while a worker is alive the three controls are disabled and the result
\* panel holds neither a source image nor a rendered bitmap.
C3_ClearedBeforeWorker ==
    workers # <<>> =>
        /\ ~gui.browse_button /\ ~gui.detect_button /\ ~gui.reset_button
        /\ gui.result_image_label.original_image = None
        /\ gui.result_image_label.image = None
        /\ gui.result_image_label.config_image = None
        /\ Detecting

C3_Witness ==
    /\ Len(workers) = 1
    /\ workers[1].pc = "start"
    /\ gui.input_image_label.image # None
    /\ gui.messagebox = MsgNone

\* C4: a step of a worker leaves the window as it is and at most appends one
\* callback to the queue; the window changes only in steps of the UI context.
C4_WorkerOnlyPosts ==
    [][(\E i \in DOMAIN workers : Stepped(i)) =>
          /\ gui' = gui
          /\ winfo' = winfo
          /\ after_queue' = after_queue \/ PostsOne]_vars

C4_Witness ==
    /\ Detecting
    /\ Len(after_queue) = 2
    /\ after_queue[1].title = MsgExecutionError
    /\ after_queue[2] = post_detection(None, FALSE)
    /\ workers = <<>>

\* C5: in Detecting no control is enabled, every step other than the arrival of
\* a completion leaves the session in Detecting with the same source path, and
\* while the child process runs the session is Detecting with no completion
\* pending.
C5_NoWayOutOfDetecting ==
    /\ [](Detecting =>
            ~gui.browse_button /\ ~gui.detect_button /\ ~gui.reset_button)
    /\ [](\A i \in DOMAIN workers :
            workers[i].pc = "run" => Detecting /\ PendingCompletions = {})
    /\ [][(Detecting /\ ~CompletionApplied) =>
            /\ Detecting'
            /\ gui'.input_image_path = gui.input_image_path]_vars

C5_Witness ==
    /\ Detecting
    /\ Len(workers) = 1
    /\ workers[1].pc = "run"
    /\ winfo.input_image_label # <<1, 1>>


\* The run directories of a filesystem modified last, and those modified last
\* among the ones that hold the image.
Newest(fs) ==
    {d \in DOMAIN fs.dirs :
        \A e \in DOMAIN fs.dirs : fs.dirs[e].mtime <= fs.dirs[d].mtime}

Holding(fs) == {d \in DOMAIN fs.dirs : fs.dirs[d].has}

NewestHolding(fs) ==
    {d \in Holding(fs) :
        \A e \in Holding(fs) : fs.dirs[e].mtime <= fs.dirs[d].mtime}

InRun(d, name) == <<"yolov7", "runs", "detect", d, name>>

DistinctMtimes(fs) ==
    \A d, e \in DOMAIN fs.dirs : d # e => fs.dirs[d].mtime # fs.dirs[e].mtime

\* C6 (as claimed): after exit code 0 with the expected path absent, whenever
\* some run directory holds the image (no two directories modified at the same
\* time) the worker posts Success with the path inside the most recently
\* modified directory that holds it.
C6_NewestHoldingRunWins ==
    [][\A i \in DOMAIN workers :
          (workers[i].pc = "scanned" /\ Stepped(i)
              /\ DistinctMtimes(workers[i].fs)
              /\ Holding(workers[i].fs) # {}) =>
             /\ PostsOne
             /\ Posted.fn = "update_gui_post_detection"
             /\ Posted.success
             /\ \E d \in NewestHolding(workers[i].fs) :
                   Posted.output_path = InRun(d, workers[i].image_name)]_vars

\* C6 (amended): after exit code 0 with the expected path absent, the scan
\* answers a path only inside a run directory modified last of all and holding
\* the image, answers nothing when no directory modified last holds it (even
\* if an older one does), and the worker posts Success with the answered path
\* or else the not-found diagnostic.
C6_LatestRunDecides ==
    /\ [](\A i \in DOMAIN workers : workers[i].pc = "scanned" =>
            LET fs == workers[i].fs
            IN /\ workers[i].returncode = 0
               /\ ~("GUI_exp" \in Holding(fs))
               /\ workers[i].latest # None =>
                     \E d \in Newest(fs) \cap Holding(fs) :
                        workers[i].latest = InRun(d, workers[i].image_name)
               /\ workers[i].latest = None =>
                     \/ ~fs.listable
                     \/ DOMAIN fs.dirs = {}
                     \/ \E d \in Newest(fs) : d \notin Holding(fs))
    /\ [][\A i \in DOMAIN workers :
            (workers[i].pc = "scanned" /\ Stepped(i)) =>
               /\ PostsOne
               /\ IF workers[i].latest # None
                  THEN /\ Posted = post_detection(workers[i].latest, TRUE)
                       /\ workers' = Remove(workers, i)
                  ELSE /\ Posted.fn = "showerror"
                       /\ Posted.title = MsgOutputNotFound]_vars

C6_Witness ==
    /\ Len(workers) = 1
    /\ workers[1].pc = "scanned"
    /\ workers[1].latest = InRun("exp2", "x.jpg")
    /\ Holding(workers[1].fs) = {"exp", "exp2"}
    /\ DOMAIN workers[1].fs.dirs = RunNames
    /\ Newest(workers[1].fs) = {"exp2"}
    /\ workers[1].fs.dirs["exp"].mtime < workers[1].fs.dirs["exp2"].mtime

\* C7: after exit code 0, when the expected path runs/detect/GUI_exp/<name>
\* exists the worker's next step posts Success with exactly that path and
\* returns, without scanning the run directories, whatever else they hold.
C7_ExpectedPathWins ==
    /\ [](\A i \in DOMAIN workers :
            workers[i].pc = "probed" => workers[i].returncode = 0)
    /\ [][\A i \in DOMAIN workers :
            (workers[i].pc = "probed" /\ Stepped(i)
                /\ "GUI_exp" \in Holding(workers[i].fs)) =>
               /\ PostsOne
               /\ Posted = post_detection(
                               InRun("GUI_exp", workers[i].image_name), TRUE)
               /\ workers' = Remove(workers, i)]_vars

C7_Witness ==
    /\ workers = <<>>
    /\ after_queue = <<post_detection(InRun("GUI_exp", "y.jpg"), TRUE)>>
    /\ gui.input_image_path = <<"pics", "y.jpg">>
    /\ Detecting

\* C8: after a non-zero exit code the worker's next step posts one diagnostic
\* carrying that code and exactly the last min(5, n) of the n lines of
\* standard error in order, and returns: no lookup, no Success.
C8_FailureDiagnostic ==
    [][\A i \in DOMAIN workers :
          (workers[i].pc = "exited" /\ workers[i].returncode # 0
              /\ Stepped(i)) =>
             LET err == workers[i].stderr
                 n == Len(err)
                 k == IF n < 5 THEN n ELSE 5
             IN /\ PostsOne
                /\ Posted.fn = "showerror"
                /\ Posted.title = MsgDetectionFailed
                /\ Posted.code = workers[i].returncode
                /\ Len(Posted.details) = k
                /\ \A j \in 1..k : Posted.details[j] = err[n - k + j]
                /\ workers' = Remove(workers, i)]_vars

C8_Witness ==
    /\ workers = <<>>
    /\ Len(after_queue) = 1
    /\ after_queue[1].title = MsgDetectionFailed
    /\ after_queue[1].code = 2
    /\ after_queue[1].details = <<2, 3, 4, 5, 6>>

\* The event loop applies a failure completion.
FailureApplied ==
    CompletionApplied /\ Head(after_queue) = post_detection(None, FALSE)

\* The window after the step is in Failed: result panel empty, the three
\* controls enabled, the source path kept.
FailedAfter ==
    /\ gui'.info_label = InfoFailed
    /\ gui'.result_image_label = EmptyLabel
    /\ gui'.browse_button /\ gui'.reset_button /\ gui'.detect_button
    /\ gui'.input_image_path = gui.input_image_path
    /\ gui'.input_image_label = gui.input_image_label

\* C9: after exit code 0 with the expected path absent and the scan answering
\* no existing path, the worker posts the diagnostic naming the expected path
\* and runs/detect, then the failure completion, and returns; applying that
\* completion leaves the result panel empty with the controls enabled.
C9_NotFoundIsFailure ==
    /\ [](\A i \in DOMAIN workers : workers[i].pc = "scanned" =>
            LET fs == workers[i].fs
            IN (~fs.listable \/ DOMAIN fs.dirs = {}
                    \/ Newest(fs) \cap Holding(fs) = {})
                  => workers[i].latest = None)
    /\ [][\A i \in DOMAIN workers :
            (workers[i].pc = "scanned" /\ workers[i].latest = None
                /\ Stepped(i)) =>
               /\ PostsOne
               /\ Posted.fn = "showerror"
               /\ Posted.expected = InRun("GUI_exp", workers[i].image_name)
               /\ Posted.checked = <<"yolov7", "runs", "detect">>
               /\ Len(workers') = Len(workers)
               /\ workers'[i].pc = "post_update"]_vars
    /\ [][\A i \in DOMAIN workers :
            (workers[i].pc = "post_update" /\ workers[i].exc = ""
                /\ Stepped(i)) =>
               /\ PostsOne
               /\ Posted = post_detection(None, FALSE)
               /\ workers' = Remove(workers, i)]_vars
    /\ [][(FailureApplied /\ gui.messagebox = MsgOutputNotFound) =>
            FailedAfter]_vars

C9_Witness ==
    /\ Failed
    /\ gui.messagebox = MsgOutputNotFound
    /\ ResultEmpty
    /\ gui.browse_button /\ gui.reset_button /\ gui.detect_button
    /\ workers = <<>> /\ after_queue = <<>>

\* C10: a worker in which an exception is raised stays alive, posts the
\* diagnostic, then exactly one failure completion, and returns; applying that
\* completion leaves the session Failed with the result panel empty and the
\* controls enabled.
C10_ExceptionIsFailure ==
    /\ [][\A i \in DOMAIN workers :
            (workers[i].pc \in {"start", "run"} /\ Stepped(i)) =>
               /\ Len(workers') = Len(workers)
               /\ after_queue' = after_queue
               /\ workers'[i].pc \in {"run", "exited", "except"}]_vars
    /\ [][\A i \in DOMAIN workers :
            (workers[i].pc = "except" /\ Stepped(i)) =>
               /\ PostsOne
               /\ Posted.fn = "showerror"
               /\ Posted.title = MsgExecutionError
               /\ Len(workers') = Len(workers)
               /\ workers'[i].pc = "post_update"
               /\ workers'[i].exc # ""]_vars
    /\ [][\A i \in DOMAIN workers :
            (workers[i].pc = "post_update" /\ workers[i].exc # ""
                /\ Stepped(i)) =>
               /\ PostsOne
               /\ Posted = post_detection(None, FALSE)
               /\ workers' = Remove(workers, i)]_vars
    /\ [][(FailureApplied /\ gui.messagebox = MsgExecutionError) =>
            FailedAfter]_vars

C10_Witness ==
    /\ Failed
    /\ gui.messagebox = MsgExecutionError
    /\ ResultEmpty
    /\ gui.browse_button /\ gui.reset_button /\ gui.detect_button
    /\ workers = <<>> /\ after_queue = <<>>

\* ------------------------------------------------------------------ C11
LoadErrors == {"FileNotFoundError", "Exception"}

\* C11: when a successful run's result image cannot be loaded, the window
\* ends Failed with the result panel empty and the browse, reset and detect
\* controls enabled, the source image and its path retained.  Stated of the
\* completion at the head of the queue, for every way the load can fail.
C11_ResultLoadErrorIsFailed ==
    (/\ after_queue # <<>>
     /\ Head(after_queue).fn = "update_gui_post_detection"
     /\ Head(after_queue).success) =>
        \A opened \in LoadErrors :
            LET r == update_gui_post_detection(gui,
                         Head(after_queue).output_path, TRUE,
                         winfo.result_image_label, opened)
            IN /\ r.result_image_label = EmptyLabel
               /\ r.browse_button /\ r.reset_button /\ r.detect_button
               /\ r.input_image_path = gui.input_image_path
               /\ r.input_image_label = gui.input_image_label
               /\ r.info_label = InfoFailed

\* ------------------------------------------------------------------ C12
IdleOf(g) ==
    /\ g.input_image_path = None
    /\ g.input_image_label = EmptyLabel
    /\ g.result_image_label = EmptyLabel
    /\ ~g.detect_button
    /\ g.browse_button /\ g.reset_button
    /\ g.info_label = InfoIdle

\* C12: a full reset leaves both panels empty, no source path, the detect
\* control disabled, browse and reset enabled and the Idle text, from any
\* state; the Reset button does so, and so does the reset made inside a
\* completion whose result image fails to load.
C12_FullResetIsIdle ==
    /\ [](IdleOf(reset_ui(gui, TRUE)))
    /\ [][ResetPressed => IdleOf(gui')]_vars
    /\ [][(/\ CompletionApplied
           /\ Head(after_queue).success
           /\ gui'.result_image_label.original_image = None) =>
              IdleOf(gui')]_vars

\* Reset pressed after a failed detection that had a source image.
C12_Witness ==
    /\ IdleOf(gui)
    /\ gui.messagebox = MsgOutputNotFound
    /\ workers = <<>> /\ after_queue = <<>>

\* ------------------------------------------------------------------ C13
\* C13: a partial reset empties the result panel and keeps the source path
\* and the input panel (and the status text); made from Completed or Failed
\* it leaves detect, browse and reset enabled with a source path remembered.
C13_PartialResetKeepsInput ==
    LET r == reset_ui(gui, FALSE)
    IN /\ r.result_image_label = EmptyLabel
       /\ r.input_image_path = gui.input_image_path
       /\ r.input_image_label = gui.input_image_label
       /\ r.info_label = gui.info_label
       /\ r.browse_button /\ r.reset_button
       /\ r.detect_button =
              (gui.input_image_path # None \/ gui.detect_button)
       /\ (gui.info_label \in {InfoComplete, InfoFailed} =>
              /\ r.input_image_path # None
              /\ r.detect_button)

\* A Completed window showing both images, from which the partial reset
\* has something to clear and something to keep.
C13_Witness ==
    /\ gui.info_label = InfoComplete
    /\ gui.result_image_label.image # None
    /\ gui.input_image_label.image # None
    /\ gui.browse_button

\* ------------------------------------------------------------------ C14
\* C14: selecting a new image first empties the result panel while keeping
\* the input, then makes the selection the source image: the path and the
\* input panel are the new file's, the status says so, and detect, browse
\* and reset are enabled; whatever the load does, the old result is gone.
\* A cancelled dialog changes nothing.
C14_SelectionReplacesSource ==
    gui.browse_button =>
        /\ browse_cleared(gui).result_image_label = EmptyLabel
        /\ browse_cleared(gui).input_image_path = gui.input_image_path
        /\ browse_cleared(gui).input_image_label = gui.input_image_label
        /\ \A f \in SourceFiles, o \in OpenResults :
              LET r == browse_image(gui, f, winfo.input_image_label, o)
              IN /\ r.result_image_label = EmptyLabel
                 /\ (o = "ok" =>
                        /\ r.input_image_path = f
                        /\ r.input_image_label.original_image
                               = PILImage_open(f)
                        /\ r.info_label = InfoSelected
                        /\ r.detect_button
                        /\ r.browse_button /\ r.reset_button)
        /\ browse_image(gui, None, winfo.input_image_label, "ok") = gui

\* A finished detection of x.jpg is on show while y.jpg has been selected:
\* impossible, so the witness is the state just before, a result on show
\* with the browse control enabled.
C14_Witness ==
    /\ gui.browse_button
    /\ gui.result_image_label.image # None
    /\ gui.input_image_path = <<"pics", "x.jpg">>
    /\ gui.info_label = InfoComplete

\* ------------------------------------------------------------------ C15
\* C15: a detection request whose precondition fails (no source path, the
\* source file gone, the detector directory or its detect script missing)
\* starts no worker and changes nothing of the window but the dialog it
\* shows; the Detect button pressed in that case leaves the workers, the
\* queue and the panels as they were.
C15_RefusedRequestChangesNothing ==
    /\ [](gui.detect_button =>
            \A srcExists, dirOk, scriptOk, weightsOk \in BOOLEAN :
               (\/ gui.input_image_path = None
                \/ ~srcExists \/ ~dirOk \/ ~scriptOk) =>
                  LET r == start_detection_thread(gui, srcExists, dirOk,
                                                  scriptOk, weightsOk)
                  IN /\ ~r.started
                     /\ r.gui.messagebox \in {MsgNoValidImage, MsgSetupWarning}
                     /\ r.gui = [gui EXCEPT !.messagebox = r.gui.messagebox])
    /\ [][DetectRefused =>
            /\ UNCHANGED <<workers, after_queue, winfo>>
            /\ gui' = [gui EXCEPT !.messagebox = gui'.messagebox]]_vars

\* A selected image whose file has gone: the request was refused and the
\* window is still the Selected one, detect enabled.
C15_Witness ==
    /\ gui.messagebox = MsgNoValidImage
    /\ gui.input_image_path # None
    /\ gui.info_label = InfoSelected
    /\ gui.detect_button
    /\ workers = <<>> /\ after_queue = <<>>

\* ------------------------------------------------------------------ C16
\* C16: missing weights alone do not abort a detection request: the setup
\* check warns and answers True, and the request of a window with a source
\* image goes on to Detecting after the warning.
C16_MissingWeightsOnlyWarn ==
    /\ check_yolov7_setup(TRUE, TRUE, FALSE).ok
    /\ check_yolov7_setup(TRUE, TRUE, FALSE).warned
    /\ (gui.detect_button /\ gui.input_image_path # None) =>
          LET r == start_detection_thread(gui, TRUE, TRUE, TRUE, FALSE)
          IN /\ r.started
             /\ r.gui.messagebox = MsgWeightsMissing
             /\ r.gui.info_label = InfoDetecting
             /\ r.gui = begin_detection(
                            [gui EXCEPT !.messagebox = MsgWeightsMissing])

\* A detection under way whose last dialog was the weights warning.
C16_Witness ==
    /\ Detecting
    /\ gui.messagebox = MsgWeightsMissing
    /\ Len(workers) = 1
    /\ workers[1].pc = "start"

\* ------------------------------------------------------------------ C17
Labels == {"input_image_label", "result_image_label"}

Usable(size) == size[1] >= TinySize /\ size[2] >= TinySize

\* C17 as stated: the bitmap a panel shows never exceeds the panel's content
\* area, whatever the panel's size.
C17_FitsContentArea ==
    \A which \in Labels :
        gui[which].image # None =>
            /\ gui[which].image[1] <= winfo[which][1]
            /\ gui[which].image[2] <= winfo[which][2]

\* C17: while a panel's content area is at least 20 pixels wide and high,
\* the bitmap it shows fits the area left by the 10-pixel margin, and so the
\* content area; a panel without an image shows none.
C17_FitsUsablePanel ==
    \A which \in Labels :
        /\ gui[which].original_image = None => gui[which].image = None
        /\ (gui[which].image # None /\ Usable(winfo[which])) =>
              /\ gui[which].image[1] <= winfo[which][1] - Padding
              /\ gui[which].image[2] <= winfo[which][2] - Padding

\* x.jpg (40x20) shown in a 30x30 panel: scaled down to 20x10.
C17_Witness ==
    /\ winfo.input_image_label = <<30, 30>>
    /\ gui.input_image_label.original_image # None
    /\ gui.input_image_label.original_image[2] = <<40, 20>>
    /\ gui.input_image_label.image = <<20, 10>>

\* ------------------------------------------------------------------ C18
\* C18: for an image of any size and a panel at least 20 by 20, the rendered
\* bitmap is at most the panel less 10 pixels in each dimension, at least
\* one pixel in each, and has the image's aspect ratio to within a pixel of
\* rounding in each dimension.
C18_RenderedWithinMargin ==
    LET label == gui.input_image_label
        size == winfo.input_image_label
    IN (label.original_image # None /\ Usable(size)) =>
          /\ label.image # None
          /\ label.image[1] <= size[1] - Padding
          /\ label.image[2] <= size[2] - Padding
          /\ label.image[1] >= 1
          /\ label.image[2] >= 1
          /\ LET W == label.original_image[2][1]
                 H == label.original_image[2][2]
                 skew == Abs(label.image[1] * H - label.image[2] * W)
             IN skew <= W \/ skew <= H

\* A 16x7 image in a 23x28 panel: scaled to 13x6, where 13*7 # 6*16.
C18_Witness ==
    /\ winfo.input_image_label = <<TinySize + 3, TinySize + 8>>
    /\ gui.input_image_label.original_image # None
    /\ gui.input_image_label.original_image[2] = <<16, 7>>
    /\ gui.input_image_label.image = <<13, 6>>

\* ------------------------------------------------------------------ C19
\* C19: a render of a panel that holds no image, or whose width or height
\* is below 20, changes nothing: the bitmap on show stays as it is; and no
\* bitmap ever has a dimension below one.
C19_SkippedRenderIsNoOp ==
    /\ [](\A size \in RenderPanelSizes :
            (gui.input_image_label.original_image = None \/ ~Usable(size)) =>
               update_label_image(gui.input_image_label, size)
                  = gui.input_image_label)
    /\ [][(\/ gui.input_image_label.original_image = None
           \/ ~Usable(winfo'.input_image_label)) => gui' = gui]_vars
    /\ [](gui.input_image_label.image # None =>
             /\ gui.input_image_label.image[1] >= 1
             /\ gui.input_image_label.image[2] >= 1)

\* A rendered bitmap kept by a panel since shrunk below the threshold in
\* one dimension only.
C19_Witness ==
    /\ gui.input_image_label.image # None
    /\ winfo.input_image_label = <<TinySize - 1, TinySize + 8>>

\* ------------------------------------------------------------------ C20
\* C20: outside Detecting the detect control is enabled only if a source
\* path is remembered; during Detecting it is disabled.
C20_DetectNeedsPath ==
    /\ gui.detect_button => gui.input_image_path # None
    /\ Detecting => ~gui.detect_button

\* ------------------------------------------------------------------ C21
\* C21: whenever the result panel holds an image (a stored image or a bitmap
\* on show), a source path is remembered and the file the result was loaded
\* from has the base name of that source path: browse, reset, detect and
\* completions in any order never leave a result beside another selection
\* or beside none.
C21_ResultMatchesSource ==
    /\ gui.result_image_label.image # None =>
          gui.result_image_label.original_image # None
    /\ gui.result_image_label.original_image # None =>
          /\ gui.input_image_path # None
          /\ Basename(gui.result_image_label.original_image[1])
                = Basename(gui.input_image_path)
          /\ gui.input_image_label.original_image # None
          /\ gui.input_image_label.original_image[1] = gui.input_image_path

\* A finished detection of y.jpg whose result, found by the scan in the run
\* directory exp2, is on show beside y.jpg.
C21_Witness ==
    /\ gui.input_image_path = <<"pics", "y.jpg">>
    /\ gui.result_image_label.original_image # None
    /\ gui.result_image_label.original_image[1]
          = Join(project_dir, <<"exp2", "y.jpg">>)
    /\ gui.result_image_label.image # None
    /\ gui.info_label = InfoComplete
    /\ workers = <<>> /\ after_queue = <<>>

====
